---- MODULE Spec2Model ----
(***************************************************************************)
(* Model of src/src/lib.rs: `status(h, p)`, one RakNet unconnected-ping     *)
(* query of a Bedrock server over UDP.                                      *)
(*                                                                          *)
(* Bytes are the integers 0..255.  A Rust String / &str is the sequence of  *)
(* its UTF-8 bytes.  An i32 is an integer of the model.  An i64 or a wider  *)
(* unsigned value does not fit the model checker's integers and is a record *)
(* [neg, mag]: a sign and a magnitude written as base-256 digits, least     *)
(* significant first, without high zero digits (zero is [FALSE, << >>]).    *)
(***************************************************************************)
EXTENDS Integers, Sequences, FiniteSets, TLC

(* ------------------------------ bounds -------------------------------- *)

\* Calls of status made one after another.
MaxCalls == 2
\* Longest text drawn freely over TextAlphabet for a reply of a whole call.
MaxWireText == 1
\* Longest text drawn freely over TextAlphabet for the decoding alone.
MaxPayloadLen == 3

(* ------------------------- sequences of bytes -------------------------- *)

Reverse(s) == [i \in 1..Len(s) |-> s[Len(s) + 1 - i]]

Min(a, b) == IF a < b THEN a ELSE b

\* &v[from..to) with 0-based offsets, as a Rust range on a slice.
Slice(v, from, to) == SubSeq(v, from + 1, to)

\* vec![0; n] extended by v: v followed by zeros up to length n.
PadTo(v, n) == [i \in 1..n |-> IF i <= Len(v) THEN v[i] ELSE 0]

RECURSIVE Strip(_)
Strip(ds) ==
  IF ds = << >> THEN << >>
  ELSE IF ds[Len(ds)] = 0 THEN Strip(SubSeq(ds, 1, Len(ds) - 1))
  ELSE ds

(* --------------------------- wide integers ----------------------------- *)

Zero == [neg |-> FALSE, mag |-> << >>]

\* ds * m + c on base-256 digits, least significant first.
RECURSIVE MulAdd(_, _, _)
MulAdd(ds, m, c) ==
  IF ds = << >>
  THEN IF c = 0 THEN << >> ELSE <<c % 256>> \o MulAdd(<< >>, m, c \div 256)
  ELSE LET t == Head(ds) * m + c
       IN  <<t % 256>> \o MulAdd(Tail(ds), m, t \div 256)

\* Long division of most-significant-first digits by d, r the running remainder.
RECURSIVE DivBE(_, _, _)
DivBE(ds, d, r) ==
  IF ds = << >> THEN [q |-> << >>, r |-> r]
  ELSE LET t == r * 256 + Head(ds)
           rest == DivBE(Tail(ds), d, t % d)
       IN  [q |-> <<t \div d>> \o rest.q, r |-> rest.r]

\* ds + 1 modulo 256^Len(ds).
RECURSIVE Inc(_)
Inc(ds) ==
  IF ds = << >> THEN << >>
  ELSE IF Head(ds) = 255 THEN <<0>> \o Inc(Tail(ds))
  ELSE <<Head(ds) + 1>> \o Tail(ds)

\* Two's complement negation on a fixed number of digits.
TwosNeg(ds) == Inc([i \in 1..Len(ds) |-> 255 - ds[i]])

\* i64::from_be_bytes
i64_from_be_bytes(b) ==
  LET le == Reverse(b)
  IN  IF b[1] >= 128
      THEN [neg |-> TRUE, mag |-> Strip(TwosNeg(le))]
      ELSE [neg |-> FALSE, mag |-> Strip(le)]

\* i64::to_le_bytes, written where to_be_bytes was meant.
i64_to_le_bytes(x) ==
  IF x.neg THEN TwosNeg(PadTo(x.mag, 8))
  ELSE PadTo(x.mag, 8)

\* i64::to_be_bytes
i64_to_be_bytes(x) ==
  IF x.neg THEN Reverse(TwosNeg(PadTo(x.mag, 8)))
  ELSE Reverse(PadTo(x.mag, 8))

\* The decimal digits (ASCII) of a non-zero magnitude.
RECURSIVE Decimal(_)
Decimal(mag) ==
  IF mag = << >> THEN << >>
  ELSE LET dv == DivBE(Reverse(mag), 10, 0)
       IN  Append(Decimal(Strip(Reverse(dv.q))), 48 + dv.r)

\* i64's Display, as used by guid.to_string()
i64_to_string(x) ==
  IF x.mag = << >> THEN <<48>>
  ELSE (IF x.neg THEN <<45>> ELSE << >>) \o Decimal(x.mag)

(* ------------------------------- text ---------------------------------- *)

IsCont(b) == b >= 128 /\ b <= 191

\* str::from_utf8(v).is_ok(): the well-formed UTF-8 byte sequences.
RECURSIVE Utf8Valid(_)
Utf8Valid(v) ==
  IF v = << >> THEN TRUE
  ELSE LET first == v[1]
           n == Len(v)
       IN  IF first < 128 THEN Utf8Valid(Tail(v))
           ELSE IF first >= 194 /\ first <= 223
             THEN n >= 2 /\ IsCont(v[2]) /\ Utf8Valid(SubSeq(v, 3, n))
           ELSE IF first >= 224 /\ first <= 239
             THEN /\ n >= 3
                  /\ \/ first = 224 /\ v[2] >= 160 /\ v[2] <= 191
                     \/ first >= 225 /\ first <= 236 /\ IsCont(v[2])
                     \/ first = 237 /\ v[2] >= 128 /\ v[2] <= 159
                     \/ first >= 238 /\ IsCont(v[2])
                  /\ IsCont(v[3])
                  /\ Utf8Valid(SubSeq(v, 4, n))
           ELSE IF first >= 240 /\ first <= 244
             THEN /\ n >= 4
                  /\ \/ first = 240 /\ v[2] >= 144 /\ v[2] <= 191
                     \/ first >= 241 /\ first <= 243 /\ IsCont(v[2])
                     \/ first = 244 /\ v[2] >= 128 /\ v[2] <= 143
                  /\ IsCont(v[3])
                  /\ IsCont(v[4])
                  /\ Utf8Valid(SubSeq(v, 5, n))
           ELSE FALSE

\* The byte of ';'
Semi == 59

\* A split that drops the empty pieces, as split(";").filter(|s| !s.is_empty()).
RECURSIVE SplitNonEmpty(_)
SplitNonEmpty(s) ==
  IF s = << >> THEN << >>
  ELSE IF s[1] = Semi THEN SplitNonEmpty(Tail(s))
  ELSE IF \A i \in 1..Len(s) : s[i] # Semi THEN <<s>>
  ELSE LET k == CHOOSE i \in 1..Len(s) :
                  s[i] = Semi /\ \A j \in 1..(i - 1) : s[j] # Semi
       IN  <<SubSeq(s, 1, k - 1)>> \o SplitNonEmpty(SubSeq(s, k + 1, Len(s)))

\* s.split(";"): the pieces between the separators, one more than there are
\* separators (the empty string gives one empty piece).
RECURSIVE Split(_)
Split(s) ==
  IF \A i \in 1..Len(s) : s[i] # Semi THEN <<s>>
  ELSE LET k == CHOOSE i \in 1..Len(s) :
                  s[i] = Semi /\ \A j \in 1..(i - 1) : s[j] # Semi
       IN  <<SubSeq(s, 1, k - 1)>> \o Split(SubSeq(s, k + 1, Len(s)))

\* Iterator::take(n)
Take(xs, n) == SubSeq(xs, 1, Min(n, Len(xs)))

\* The closure get_part_string: the part at a 0-based index, or "".
get_part_string(parts, index) ==
  IF index < Len(parts) THEN parts[index + 1] ELSE << >>

I32_MAX == 2147483647
I32_MIN == -I32_MAX - 1

IsDigit(c) == c >= 48 /\ c <= 57

\* The digit loop of from_str for i32: acc is multiplied by ten and the digit
\* added (pos) or subtracted (~pos), each checked against the i32 range.
RECURSIVE ParseDigits(_, _, _)
ParseDigits(ds, acc, pos) ==
  IF ds = << >> THEN [ok |-> TRUE, val |-> acc]
  ELSE LET d == Head(ds) - 48
       IN  IF ~IsDigit(Head(ds)) THEN [ok |-> FALSE, val |-> 0]
           ELSE IF acc > I32_MAX \div 10 \/ acc < -(I32_MAX \div 10)
             THEN [ok |-> FALSE, val |-> 0]
           ELSE IF pos /\ acc * 10 > I32_MAX - d THEN [ok |-> FALSE, val |-> 0]
           ELSE IF ~pos /\ acc * 10 < I32_MIN + d THEN [ok |-> FALSE, val |-> 0]
           ELSE ParseDigits(Tail(ds), IF pos THEN acc * 10 + d ELSE acc * 10 - d, pos)

\* A parse that reads the leading digits and stops at the first other byte,
\* as C's atoi does.
RECURSIVE LeadingDigits(_, _)
LeadingDigits(ds, acc) ==
  IF ds = << >> \/ ~IsDigit(Head(ds)) \/ acc > (I32_MAX - 9) \div 10
  THEN [ok |-> TRUE, val |-> acc]
  ELSE LeadingDigits(Tail(ds), acc * 10 + (Head(ds) - 48))

parse_i32_atoi(s) == LeadingDigits(s, 0)

\* s.parse::<i32>()
parse_i32(s) ==
  IF s = << >> THEN [ok |-> FALSE, val |-> 0]
  ELSE IF s[1] \in {43, 45} /\ Len(s) = 1 THEN [ok |-> FALSE, val |-> 0]
  ELSE IF s[1] = 43 THEN ParseDigits(Tail(s), 0, TRUE)
  ELSE IF s[1] = 45 THEN ParseDigits(Tail(s), 0, FALSE)
  ELSE ParseDigits(s, 0, TRUE)

\* s.parse::<i64>(): [ok, val], val a wide integer.
parse_i64(s) ==
  LET signed == s # << >> /\ s[1] \in {43, 45}
      neg == s # << >> /\ s[1] = 45
      body == IF signed THEN Tail(s) ELSE s
      RECURSIVE Fold(_, _)
      Fold(ds, acc) ==
        IF ds = << >> THEN acc ELSE Fold(Tail(ds), MulAdd(acc, 10, Head(ds) - 48))
      mag == Strip(Fold(body, << >>))
      fits == \/ Len(mag) < 8
              \/ Len(mag) = 8 /\ mag[8] < 128
              \/ neg /\ mag = <<0, 0, 0, 0, 0, 0, 0, 128>>
  IN  IF body = << >> \/ \E i \in 1..Len(body) : ~IsDigit(body[i])
      THEN [ok |-> FALSE, val |-> Zero]
      ELSE IF ~fits THEN [ok |-> FALSE, val |-> Zero]
      ELSE [ok |-> TRUE, val |-> [neg |-> neg /\ mag # << >>, mag |-> mag]]

\* Result::unwrap_or
unwrap_or(r, default) == IF r.ok THEN r.val ELSE default

(* --------------------------- program constants -------------------------- *)

MAGIC == <<0, 255, 255, 0, 254, 254, 254, 254, 253, 253, 253, 253, 18, 52, 86, 120>>

\* p.unwrap_or(19132)
DefaultPort == 19132

\* let mut packet = [0u8; 1024]
BufSize == 1024

\* Duration::new(2, 0), the read and the write timeout in seconds
TimeoutSecs == 2

\* The offset of the text were the header followed by a further 8-byte GUID.
PayloadStartAfterGuid == 1 + 8 + 8 + 16 + 8

\* The offset at which the text of the reply starts.
PayloadStart == 8 + 8 + 16 + 2 + 1

\* Option<T>: None is << >>, Some(v) is <<v>>.
None == << >>
Some(v) == <<v>>

option_unwrap_or(o, default) == IF o = None THEN default ELSE o[1]

(* ------------------------------- inputs -------------------------------- *)

Hosts == {"localhost", "play.lbsg.net"}

Ports == {None, Some(19133)}

\* What connect() resolves a host name to: nothing, or an address.
Resolve(host) == IF host = "localhost" THEN {"127.0.0.1"} ELSE {"203.0.113.5"}

\* Readings of SystemTime::now(): before the epoch, or secs (base-256 digits,
\* least significant first) and nanos after it.  1700000000 s; the last two
\* are i64::MAX ms and one ms more.
Clocks ==
  { [before |-> TRUE, secs |-> <<1>>, nanos |-> 0],
    [before |-> FALSE, secs |-> << >>, nanos |-> 0],
    [before |-> FALSE, secs |-> <<0, 241, 83, 101>>, nanos |-> 123456789],
    [before |-> FALSE, secs |-> <<247, 83, 227, 165, 155, 196, 32>>, nanos |-> 807999999],
    [before |-> FALSE, secs |-> <<247, 83, 227, 165, 155, 196, 32>>, nanos |-> 808000000],
    [before |-> FALSE, secs |-> <<255, 255, 255, 255, 255, 255, 255, 255>>, nanos |-> 999999999] }

\* Values of rand::random::<[u8; 8]>()
ClientGuids == { <<4, 4, 4, 4, 4, 4, 4, 4>>, <<222, 173, 190, 239, 0, 1, 128, 255>> }

GoldenPayload ==
  <<77, 67, 80, 69, 59, 68, 101, 100, 105, 99, 97, 116, 101, 100, 32, 83,
     101, 114, 118, 101, 114, 59, 52, 55, 53, 59, 49, 46, 49, 56, 46, 48,
     59, 53, 59, 50, 48, 59, 49, 50, 51, 52, 53, 54, 55, 56, 57, 48, 59,
     66, 101, 100, 114, 111, 99, 107, 32, 108, 101, 118, 101, 108, 59, 83,
     117, 114, 118, 105, 118, 97, 108, 59, 49, 59, 49, 57, 49, 51, 50, 59,
     49, 57, 49, 51, 51, 59>>

\* A pong: id, timestamp, server GUID, magic, length of the text.
Header(guid_bytes, n) ==
  <<28>> \o <<0, 0, 1, 139, 207, 229, 104, 123>> \o guid_bytes \o MAGIC
    \o <<n \div 256, n % 256>>

Pong(guid_bytes, text) == Header(guid_bytes, Len(text)) \o text

GoldenGuid == <<0, 0, 0, 0, 73, 150, 2, 210>>

GoldenReply == Pong(GoldenGuid, GoldenPayload)

\* ';', '1', '-', 'a', the two bytes of U+00E9, and a byte no UTF-8 text holds.
TextAlphabet == {59, 49, 45, 97, 195, 169, 255}

\* Every text over TextAlphabet of at most n bytes.
FreeTexts(n) == UNION { [1..k -> TextAlphabet] : k \in 0..n }

\* Every truncation of the golden reply, the empty datagram included.
Truncated == { SubSeq(GoldenReply, 1, n) : n \in 0..Len(GoldenReply) }

\* The datagrams the queried endpoint may answer a call with.
Replies == Truncated \cup { Pong(GoldenGuid, t) : t \in FreeTexts(MaxWireText) }

\* Tokens for the numeric positions: "", "abc", "-", "+7", "-3", "007", "12a",
\* i32::MAX, i32::MAX + 1, i32::MIN, i32::MIN - 1.
NumTokens ==
  { << >>, <<97, 98, 99>>, <<45>>, <<43, 55>>, <<45, 51>>, <<48, 48, 55>>, <<49, 50, 97>>,
    <<50, 49, 52, 55, 52, 56, 51, 54, 52, 55>>,
    <<50, 49, 52, 55, 52, 56, 51, 54, 52, 56>>,
    <<45, 50, 49, 52, 55, 52, 56, 51, 54, 52, 56>>,
    <<45, 50, 49, 52, 55, 52, 56, 51, 54, 52, 57>> }

Join(parts) ==
  LET RECURSIVE J(_)
      J(ps) == IF Len(ps) = 1 THEN ps[1] ELSE ps[1] \o <<Semi>> \o J(Tail(ps))
  IN  J(parts)

\* Texts of nine tokens whose numeric positions range over NumTokens.
NumericTexts ==
  { Join(<<<<77, 67, 80, 69>>, <<65>>, t2, <<49, 46, 49, 56, 46, 48>>, t4, t5, <<48>>, <<66>>, <<83, 117, 114, 118, 105, 118, 97, 108>>>>) :
      t2 \in NumTokens, t4 \in NumTokens, t5 \in NumTokens }

\* Server GUIDs: 1234567890, 0, -2, i64::MIN, i64::MAX.
ServerGuids ==
  { GoldenGuid,
    <<0, 0, 0, 0, 0, 0, 0, 0>>,
    <<255, 255, 255, 255, 255, 255, 255, 254>>,
    <<128, 0, 0, 0, 0, 0, 0, 0>>,
    <<127, 255, 255, 255, 255, 255, 255, 255>> }

\* Unique ids of the text: 1234567890, -2, "", "abc", 999, i64::MAX, i64::MAX + 1.
UniqueIds ==
  { <<49, 50, 51, 52, 53, 54, 55, 56, 57, 48>>, <<45, 50>>, << >>, <<97, 98, 99>>, <<57, 57, 57>>,
    <<57, 50, 50, 51, 51, 55, 50, 48, 51, 54, 56, 53, 52, 55, 55, 53, 56, 48, 55>>,
    <<57, 50, 50, 51, 51, 55, 50, 48, 51, 54, 56, 53, 52, 55, 55, 53, 56, 48, 56>> }

GuidPongs ==
  { Pong(g, Join(<<<<77, 67, 80, 69>>, <<65>>, <<52, 55, 53>>, <<49, 46, 49, 56, 46, 48>>, <<53>>, <<50, 48>>, u, <<66>>>>)) :
      g \in ServerGuids, u \in UniqueIds }

\* The datagrams the decoding is checked on.
DecodeInputs ==
  Truncated
    \cup { Pong(GoldenGuid, t) : t \in FreeTexts(MaxPayloadLen) \cup NumericTexts }
    \cup GuidPongs

(* ------------------------------- state --------------------------------- *)

VARIABLES
  pc,                 \* the statement of status the call is at; "idle", "done"
  calls,              \* calls of status started so far
  h, p, port,         \* the arguments h and p, and the local port
  socket,             \* the UdpSocket of the call (0: none)
  open,               \* the sockets the process holds open
  bound,              \* every socket ever bound, in order
  peer,               \* the address connect fixed as the peer
  read_timeout, write_timeout,
  now,                \* what SystemTime::now() returned
  client_guid,
  buf,                \* the request
  wire,               \* the datagrams the call has sent
  sends, recvs,       \* send and recv_from calls made by the call
  packet, amt, src,   \* the bytes recv_from wrote, their count, their sender
  guid, server_data, server_data_parts,
  ret,                \* "none" while running; "Ok", "Err" or "panic"
  detail,             \* the error's type, or the panic's message
  failed,             \* the operation whose failure ended the call
  result              \* Some(Status) when ret = "Ok"

vars ==
  <<pc, calls, h, p, port, socket, open, bound, peer, read_timeout, write_timeout,
    now, client_guid, buf, wire, sends, recvs, packet, amt, src, guid,
    server_data, server_data_parts, ret, detail, failed, result>>

NoClock == [before |-> FALSE, secs |-> << >>, nanos |-> 0]

\* The locals of a call before any statement has run.
Fresh ==
  /\ socket = 0 /\ peer = "" /\ read_timeout = None /\ write_timeout = None
  /\ now = NoClock /\ client_guid = << >> /\ buf = << >> /\ wire = << >>
  /\ sends = 0 /\ recvs = 0 /\ packet = << >> /\ amt = 0 /\ src = ""
  /\ guid = Zero /\ server_data = << >> /\ server_data_parts = << >>
  /\ ret = "none" /\ detail = "" /\ failed = "" /\ result = None

Init ==
  /\ pc = "idle" /\ calls = 0 /\ h = "" /\ p = None /\ port = 0
  /\ open = {} /\ bound = << >>
  /\ Fresh

(* ------------------------------ the call ------------------------------- *)

\* The whole buffer [0u8; 1024]: what recv_from wrote, then the zeros it
\* was created with.
PacketBuf == PadTo(packet, BufSize)

\* A range start..end indexes a slice of length n without panicking.
RangeOk(start, end, n) == start <= end /\ end <= n

\* Duration::as_millis of the time since the epoch.
as_millis(t) == MulAdd(t.secs, 1000, t.nanos \div 1000000)

\* i64::try_from(u128).is_ok(): the value is at most i64::MAX.
FitsI64(mag) ==
  LET m == Strip(mag) IN Len(m) < 8 \/ (Len(m) = 8 /\ m[8] < 128)

\* Lines 50-64: the id, the time, the magic, the client GUID.
Request(t, cg) ==
  <<1>> \o i64_to_be_bytes([neg |-> FALSE, mag |-> Strip(as_millis(t))])
        \o MAGIC \o cg

\* SocketAddr's Display
addr_to_string(a) == <<a[1], ":", a[2]>>

\* Line 88 without its comment marks: the unique id of the text replaces
\* the GUID when it parses.
GuidFromUniqueId(g, parts) ==
  IF get_part_string(parts, 6) # i64_to_string(g)
  THEN unwrap_or(parse_i64(get_part_string(parts, 6)), g)
  ELSE g

\* Lines 85-89: the unique id of the text is compared with the GUID and the
\* GUID is kept whatever the comparison says.
KeepGuid(g, parts) ==
  IF get_part_string(parts, 6) # i64_to_string(g) THEN g ELSE g

\* Lines 91-110
StatusOf(host, prt, g, from, parts) ==
  [ server |->
      [ host |-> host,
        port |-> prt,
        guid |-> g,
        remote_host |-> from,
        motd |-> <<get_part_string(parts, 1), get_part_string(parts, 7)>>,
        edition |-> get_part_string(parts, 0) ],
    version |->
      [ protocol |-> unwrap_or(parse_i32(get_part_string(parts, 2)), 1),
        name |-> get_part_string(parts, 3) ],
    players |->
      [ online |-> unwrap_or(parse_i32(get_part_string(parts, 4)), -1),
        max |-> unwrap_or(parse_i32(get_part_string(parts, 5)), -1) ] ]

\* An end of the call that closes the socket on a return only.
LeaveLeak(kind, what, step, res) ==
  /\ pc' = "done"
  /\ ret' = kind
  /\ detail' = what
  /\ failed' = step
  /\ result' = res
  /\ open' = IF kind = "panic" THEN open ELSE open \ {socket}

\* The call ends: by a return (kind "Ok" or "Err") or by a panic.  Either
\* way the locals are dropped, and dropping the UdpSocket closes it.
Leave(kind, what, step, res) ==
  /\ pc' = "done"
  /\ ret' = kind
  /\ detail' = what
  /\ failed' = step
  /\ result' = res
  /\ open' = open \ {socket}

\* status(h, p) is entered; line 41.
Call ==
  /\ pc \in {"idle", "done"}
  /\ calls < MaxCalls
  /\ \E host \in Hosts, prt \in Ports :
       /\ h' = host
       /\ p' = prt
       /\ port' = option_unwrap_or(prt, DefaultPort)
  /\ calls' = calls + 1
  /\ pc' = "bind"
  /\ socket' = 0 /\ peer' = "" /\ read_timeout' = None /\ write_timeout' = None
  /\ now' = NoClock /\ client_guid' = << >> /\ buf' = << >> /\ wire' = << >>
  /\ sends' = 0 /\ recvs' = 0 /\ packet' = << >> /\ amt' = 0 /\ src' = ""
  /\ guid' = Zero /\ server_data' = << >> /\ server_data_parts' = << >>
  /\ ret' = "none" /\ detail' = "" /\ failed' = "" /\ result' = None
  /\ UNCHANGED <<open, bound>>

\* Line 43: UdpSocket::bind(..).expect(..)
Bind ==
  /\ pc = "bind"
  /\ \/ /\ socket' = Len(bound) + 1
        /\ bound' = Append(bound, Len(bound) + 1)
        /\ open' = open \cup {Len(bound) + 1}
        /\ pc' = "connect"
        /\ UNCHANGED <<ret, detail, failed, result>>
     \/ /\ Leave("panic", "could not bind to local address", "bind", None)
        /\ UNCHANGED <<socket, bound>>
  /\ UNCHANGED <<calls, h, p, port, peer, read_timeout, write_timeout, now,
                 client_guid, buf, wire, sends, recvs, packet, amt, src, guid,
                 server_data, server_data_parts>>

\* A connect whose failure is returned as an error value.
ConnectErr ==
  /\ pc = "connect"
  /\ \/ /\ \E a \in Resolve(h) : peer' = addr_to_string(<<a, port>>)
        /\ pc' = "set_read_timeout"
        /\ UNCHANGED <<open, ret, detail, failed, result>>
     \/ /\ Leave("Err", "ResolutionError", "connect", None)
        /\ UNCHANGED peer
  /\ UNCHANGED <<calls, h, p, port, socket, bound, read_timeout, write_timeout,
                 now, client_guid, buf, wire, sends, recvs, packet, amt, src,
                 guid, server_data, server_data_parts>>

\* Line 44: socket.connect(..).expect(..)
Connect ==
  /\ pc = "connect"
  /\ \/ /\ \E a \in Resolve(h) : peer' = addr_to_string(<<a, port>>)
        /\ pc' = "set_read_timeout"
        /\ UNCHANGED <<open, ret, detail, failed, result>>
     \/ /\ Leave("panic", "connection with server failed", "connect", None)
        /\ UNCHANGED peer
  /\ UNCHANGED <<calls, h, p, port, socket, bound, read_timeout, write_timeout,
                 now, client_guid, buf, wire, sends, recvs, packet, amt, src,
                 guid, server_data, server_data_parts>>

\* Line 47: socket.set_read_timeout(..)?
SetReadTimeout ==
  /\ pc = "set_read_timeout"
  /\ \/ /\ read_timeout' = Some(TimeoutSecs)
        /\ pc' = "set_write_timeout"
        /\ UNCHANGED <<open, ret, detail, failed, result>>
     \/ /\ Leave("Err", "io::Error", "set_read_timeout", None)
        /\ UNCHANGED read_timeout
  /\ UNCHANGED <<calls, h, p, port, socket, bound, peer, write_timeout, now,
                 client_guid, buf, wire, sends, recvs, packet, amt, src, guid,
                 server_data, server_data_parts>>

\* Line 48: socket.set_write_timeout(..)?
SetWriteTimeout ==
  /\ pc = "set_write_timeout"
  /\ \/ /\ write_timeout' = Some(TimeoutSecs)
        /\ pc' = "build"
        /\ UNCHANGED <<open, ret, detail, failed, result>>
     \/ /\ Leave("Err", "io::Error", "set_write_timeout", None)
        /\ UNCHANGED write_timeout
  /\ UNCHANGED <<calls, h, p, port, socket, bound, peer, read_timeout, now,
                 client_guid, buf, wire, sends, recvs, packet, amt, src, guid,
                 server_data, server_data_parts>>

\* Lines 50-64: the request is built from the clock and a random GUID.
BuildRequest ==
  /\ pc = "build"
  /\ \E t \in Clocks :
       /\ now' = t
       /\ IF t.before
          THEN /\ Leave("Err", "SystemTimeError", "duration_since", None)
               /\ UNCHANGED <<client_guid, buf>>
          ELSE IF ~FitsI64(as_millis(t))
          THEN /\ Leave("Err", "TryFromIntError", "try_into", None)
               /\ UNCHANGED <<client_guid, buf>>
          ELSE /\ \E cg \in ClientGuids :
                    /\ client_guid' = cg
                    /\ buf' = Request(t, cg)
               /\ pc' = "send"
               /\ UNCHANGED <<open, ret, detail, failed, result>>
  /\ UNCHANGED <<calls, h, p, port, socket, bound, peer, read_timeout,
                 write_timeout, wire, sends, recvs, packet, amt, src, guid,
                 server_data, server_data_parts>>

\* A send that is tried again after it failed.
SendRetry ==
  /\ pc = "send"
  /\ sends < 3
  /\ sends' = sends + 1
  /\ \/ /\ wire' = Append(wire, buf)
        /\ pc' = "recv_from"
     \/ /\ pc' = "send"
        /\ UNCHANGED wire
  /\ UNCHANGED <<calls, h, p, port, socket, open, bound, peer, read_timeout,
                 write_timeout, now, client_guid, buf, recvs, packet, amt, src,
                 guid, server_data, server_data_parts, ret, detail, failed,
                 result>>

\* Line 66: socket.send(&buf).expect(..)
Send ==
  /\ pc = "send"
  /\ sends' = sends + 1
  /\ \/ /\ wire' = Append(wire, buf)
        /\ pc' = "recv_from"
        /\ UNCHANGED <<open, ret, detail, failed, result>>
     \/ /\ Leave("panic", "could not send message", "send", None)
        /\ UNCHANGED wire
  /\ UNCHANGED <<calls, h, p, port, socket, bound, peer, read_timeout,
                 write_timeout, now, client_guid, buf, recvs, packet, amt, src,
                 guid, server_data, server_data_parts>>

\* A recv_from whose failure is returned as an error value.
RecvFromErr ==
  /\ pc = "recv_from"
  /\ recvs' = recvs + 1
  /\ \/ /\ \E d \in Replies :
             /\ amt' = Min(Len(d), BufSize)
             /\ packet' = SubSeq(d, 1, Min(Len(d), BufSize))
        /\ src' = peer
        /\ pc' = "decode"
        /\ UNCHANGED <<open, ret, detail, failed, result>>
     \/ /\ Leave("Err", "ReceiveTimeout", "recv_from", None)
        /\ UNCHANGED <<packet, amt, src>>
  /\ UNCHANGED <<calls, h, p, port, socket, bound, peer, read_timeout,
                 write_timeout, now, client_guid, buf, wire, sends, guid,
                 server_data, server_data_parts>>

\* Lines 69-70: socket.recv_from(&mut packet).expect(..); a datagram longer
\* than the buffer is cut to the buffer.
RecvFrom ==
  /\ pc = "recv_from"
  /\ recvs' = recvs + 1
  /\ \/ /\ \E d \in Replies :
             /\ amt' = Min(Len(d), BufSize)
             /\ packet' = SubSeq(d, 1, Min(Len(d), BufSize))
        /\ src' = peer
        /\ pc' = "decode"
        /\ UNCHANGED <<open, ret, detail, failed, result>>
     \/ /\ Leave("panic", "could not get status", "recv_from", None)
        /\ UNCHANGED <<packet, amt, src>>
  /\ UNCHANGED <<calls, h, p, port, socket, bound, peer, read_timeout,
                 write_timeout, now, client_guid, buf, wire, sends, guid,
                 server_data, server_data_parts>>

\* Lines 72-110: the GUID, the text, its parts, the Status.
Decode ==
  /\ pc = "decode"
  /\ guid' = i64_from_be_bytes(Slice(PacketBuf, 8 + 1, 8 + 8 + 1))
  /\ IF ~RangeOk(PayloadStart, amt, BufSize)
     THEN /\ Leave("panic", "slice index starts after its end", "slice", None)
          /\ UNCHANGED <<server_data, server_data_parts>>
     ELSE IF ~Utf8Valid(Slice(PacketBuf, PayloadStart, amt))
     THEN /\ Leave("panic", "could not decode server data", "from_utf8", None)
          /\ UNCHANGED <<server_data, server_data_parts>>
     ELSE LET text == Slice(PacketBuf, PayloadStart, amt)
              parts == Take(Split(text), 9)
          IN  /\ server_data' = text
              /\ server_data_parts' = parts
              /\ Leave("Ok", "", "",
                       Some(StatusOf(h, port, KeepGuid(guid', parts), src, parts)))
  /\ UNCHANGED <<calls, h, p, port, socket, bound, peer, read_timeout,
                 write_timeout, now, client_guid, buf, wire, sends, recvs,
                 packet, amt, src>>

Next ==
  \/ Call
  \/ Bind
  \/ Connect
  \/ SetReadTimeout
  \/ SetWriteTimeout
  \/ BuildRequest
  \/ Send
  \/ RecvFrom
  \/ Decode

Spec == Init /\ [][Next]_vars

(* -------------------------- the decoding alone -------------------------- *)

GoldenClock == [before |-> FALSE, secs |-> <<0, 241, 83, 101>>, nanos |-> 123456789]

\* A call right after recv_from returned one of DecodeInputs.
InitDecode ==
  /\ pc = "decode" /\ calls = 1
  /\ \E host \in Hosts, prt \in Ports :
       /\ h = host
       /\ p = prt
       /\ port = option_unwrap_or(prt, DefaultPort)
  /\ socket = 1 /\ open = {1} /\ bound = <<1>>
  /\ \E a \in Resolve(h) : peer = addr_to_string(<<a, port>>)
  /\ read_timeout = Some(TimeoutSecs) /\ write_timeout = Some(TimeoutSecs)
  /\ now = GoldenClock
  /\ client_guid = <<4, 4, 4, 4, 4, 4, 4, 4>>
  /\ buf = Request(now, client_guid)
  /\ wire = <<buf>>
  /\ sends = 1 /\ recvs = 1
  /\ \E d \in DecodeInputs :
       /\ amt = Min(Len(d), BufSize)
       /\ packet = SubSeq(d, 1, Min(Len(d), BufSize))
  /\ src = peer
  /\ guid = Zero /\ server_data = << >> /\ server_data_parts = << >>
  /\ ret = "none" /\ detail = "" /\ failed = "" /\ result = None

SpecDecode == InitDecode /\ [][Decode]_vars

(* ------------------------- words of the claims -------------------------- *)

\* The call has ended with a reply in hand (recv_from returned).
Decoded == pc = "done" /\ recvs = 1 /\ src # ""

\* The text of the reply as the wire protocol lays it out: the bytes from
\* offset 35 to the end of what was received.
WireText == SubSeq(packet, 36, amt)

\* The i-th field (from 0) of a text: its bytes with exactly i separators
\* before them.
FieldAt(s, i) ==
  LET idx == { j \in 1..Len(s) :
                 s[j] # Semi /\ Cardinality({k \in 1..(j - 1) : s[k] = Semi}) = i }
      lo == CHOOSE j \in idx : \A k \in idx : j <= k
      hi == CHOOSE j \in idx : \A k \in idx : k <= j
  IN  IF idx = {} THEN << >> ELSE SubSeq(s, lo, hi)

SemiCount(s) == Cardinality({k \in 1..Len(s) : s[k] = Semi})

RECURSIVE DropZeros(_)
DropZeros(ds) == IF ds # << >> /\ Head(ds) = 48 THEN DropZeros(Tail(ds)) ELSE ds

\* a <= b for digit strings of one length.
DigitsLeq(a, b) ==
  a = b \/ \E k \in 1..Len(a) : a[k] < b[k] /\ \A j \in 1..(k - 1) : a[j] = b[j]

\* The text is a decimal signed 32-bit integer: an optional sign, at least
\* one digit, a value from -2147483648 to 2147483647.
IsI32Text(s) ==
  LET signed == s # << >> /\ s[1] \in {43, 45}
      body == IF signed THEN Tail(s) ELSE s
      sig == DropZeros(body)
      limit == IF s # << >> /\ s[1] = 45
               THEN <<50, 49, 52, 55, 52, 56, 51, 54, 52, 56>>
               ELSE <<50, 49, 52, 55, 52, 56, 51, 54, 52, 55>>
  IN  /\ body # << >>
      /\ \A i \in 1..Len(body) : IsDigit(body[i])
      /\ Len(sig) < 10 \/ (Len(sig) = 10 /\ DigitsLeq(sig, limit))

\* s is a piece of text.
IsPiece(s, text) ==
  \E i \in 0..(Len(text) - Len(s)) : SubSeq(text, i + 1, i + Len(s)) = s

TheStatus == result[1]

(* ------------------------------- claims -------------------------------- *)

\* C1, as stated: every call ends by returning a Status or one of the named
\* error kinds as an error value, never by panicking.
C1_NeverPanics ==
  pc = "done" =>
    /\ ret \in {"Ok", "Err"}
    /\ ret = "Err" =>
         detail \in {"ResolutionError", "SendTimeout", "ReceiveTimeout",
                     "TooShort", "EncodingError", "ClockError"}

\* C1, amended: every call ends in exactly one of three outcomes, a complete
\* Status, an error value, or a panic.  An error value comes only from a
\* failed timeout setting or clock conversion, before anything is sent; a
\* failure of bind, connect, send, receive or UTF-8 decoding, and a reply too
\* short to hold a text, ends the call by a panic.
C1_ThreeOutcomes ==
  /\ pc # "done" => ret = "none" /\ result = None /\ failed = ""
  /\ pc = "done" =>
       /\ ret \in {"Ok", "Err", "panic"}
       /\ ret = "Ok" <=> result # None
       /\ ret = "Ok" <=> failed = ""
       /\ ret = "Err" <=>
            failed \in {"set_read_timeout", "set_write_timeout",
                        "duration_since", "try_into"}
       /\ ret = "panic" <=>
            failed \in {"bind", "connect", "send", "recv_from", "slice",
                        "from_utf8"}
       /\ ret = "Err" =>
            /\ detail \in {"io::Error", "SystemTimeError", "TryFromIntError"}
            /\ sends = 0
       /\ ret = "Ok" => sends = 1 /\ recvs = 1 /\ amt >= 35 /\ Utf8Valid(WireText)
       /\ failed = "connect" => socket # 0 /\ peer = "" /\ sends = 0
       /\ failed = "bind" => socket = 0

\* A call that ended by a panic, in the UTF-8 decoding of a received reply.
C1_Witness ==
  pc = "done" /\ ret = "panic" /\ failed = "from_utf8" /\ ~Utf8Valid(WireText)

\* C2, as stated: for a reply of at most 41 bytes the decoding never panics;
\* under 17 bytes the call fails with TooShort, from 17 to 41 bytes the text
\* is empty and a Status is returned.
C2_ShortReplies ==
  Decoded /\ amt <= 41 =>
    /\ ret # "panic"
    /\ amt < 17 => ret = "Err" /\ detail = "TooShort"
    /\ amt >= 17 => ret = "Ok" /\ server_data = << >>

\* C3, as stated: for a reply of more than 41 bytes the text that is split
\* into fields is the reply's bytes at offsets [41, byte_count).
C3_TextAt41 ==
  Decoded /\ amt > 41 /\ ret = "Ok" => server_data = SubSeq(packet, 42, amt)

\* C3, amended: for a reply of at least 35 bytes the text that is split into
\* fields is the reply's bytes at offsets [35, byte_count): after the id, the
\* timestamp, the server GUID, the magic and a further 2 bytes; no byte before
\* offset 35 is part of a decoded text field.
C3_TextAt35 ==
  Decoded /\ ret = "Ok" =>
    /\ amt >= 35
    /\ Len(server_data) = amt - 35
    /\ \A i \in 1..Len(server_data) : server_data[i] = packet[35 + i]
    /\ server_data_parts = Take(Split(WireText), 9)
    /\ \A f \in {TheStatus.server.edition, TheStatus.server.motd[1],
                 TheStatus.server.motd[2], TheStatus.version.name} :
         IsPiece(f, WireText)

\* A Status from a reply of more than 41 bytes whose edition starts at
\* offset 35.
C3_Witness ==
  /\ Decoded /\ ret = "Ok" /\ amt > 41
  /\ TheStatus.server.edition = SubSeq(packet, 36, 39)
  /\ Len(TheStatus.server.edition) = 4

\* C4: every request datagram sent is 33 bytes: 0x01, the milliseconds since
\* the epoch as a big-endian signed 64-bit integer, the 16-byte magic, the
\* 8-byte client GUID.
C4_Request ==
  \A n \in 1..Len(wire) :
    LET d == wire[n]
        time == SubSeq(d, 2, 9)
        dv == DivBE(time, 1000, 0)
    IN  /\ Len(d) = 33
        /\ d[1] = 1
        /\ time[1] < 128
        /\ Strip(Reverse(dv.q)) = Strip(now.secs)
        /\ dv.r = now.nanos \div 1000000
        /\ now = GoldenClock => time = <<0, 0, 1, 139, 207, 229, 104, 123>>
        /\ SubSeq(d, 10, 25) =
             <<0, 255, 255, 0, 254, 254, 254, 254, 253, 253, 253, 253, 18, 52, 86, 120>>
        /\ SubSeq(d, 26, 33) = client_guid
        /\ Len(client_guid) = 8

\* A request sent at 1700000000.123 s with a GUID of unequal bytes.
C4_Witness ==
  /\ Len(wire) = 1 /\ now = GoldenClock
  /\ SubSeq(wire[1], 26, 33) = <<222, 173, 190, 239, 0, 1, 128, 255>>

\* C5: a numeric field whose token is absent or is no signed 32-bit integer
\* never fails the call: protocol is 1, players.online is -1, players.max is
\* -1 for such a token, and every other field is what it would be had the
\* token been a valid number.
C5_NumericDefaults ==
  Decoded /\ amt >= 35 /\ Utf8Valid(WireText) =>
    /\ ret = "Ok"
    /\ ~IsI32Text(FieldAt(WireText, 2)) => TheStatus.version.protocol = 1
    /\ ~IsI32Text(FieldAt(WireText, 4)) => TheStatus.players.online = -1
    /\ ~IsI32Text(FieldAt(WireText, 5)) => TheStatus.players.max = -1
    /\ LET padded == [i \in 1..9 |-> FieldAt(WireText, i - 1)]
           with7(k) == [padded EXCEPT ![k + 1] = <<55>>]
           alt(k) == StatusOf(h, port, guid, src, with7(k))
       IN  /\ ~IsI32Text(FieldAt(WireText, 2)) =>
                /\ alt(2).server = TheStatus.server
                /\ alt(2).players = TheStatus.players
                /\ alt(2).version.name = TheStatus.version.name
                /\ alt(2).version.protocol = 7
           /\ ~IsI32Text(FieldAt(WireText, 4)) =>
                /\ alt(4).server = TheStatus.server
                /\ alt(4).version = TheStatus.version
                /\ alt(4).players.max = TheStatus.players.max
                /\ alt(4).players.online = 7
           /\ ~IsI32Text(FieldAt(WireText, 5)) =>
                /\ alt(5).server = TheStatus.server
                /\ alt(5).version = TheStatus.version
                /\ alt(5).players.online = TheStatus.players.online
                /\ alt(5).players.max = 7

\* A Status whose protocol token is "12a", whose online token is one past
\* i32::MAX and whose max token is valid.
C5_Witness ==
  /\ Decoded /\ ret = "Ok"
  /\ FieldAt(WireText, 2) = <<49, 50, 97>>
  /\ FieldAt(WireText, 4) = <<50, 49, 52, 55, 52, 56, 51, 54, 52, 56>>
  /\ IsI32Text(FieldAt(WireText, 5))
  /\ TheStatus.version.protocol = 1
  /\ TheStatus.players.online = -1
  /\ TheStatus.players.max # -1

\* C6: the Status is built from the first 9 tokens by position: edition from
\* token 0, motd from tokens 1 and 7, protocol from token 2, name from token
\* 3, online and max from tokens 4 and 5; a position without a token is the
\* empty string and no error; tokens from position 9 on change nothing; host
\* and port are the caller's host and port, the port 19132 when none is given.
C6_FieldsByPosition ==
  Decoded /\ amt >= 35 /\ Utf8Valid(WireText) =>
    /\ ret = "Ok"
    /\ Len(server_data_parts) <= 9
    /\ TheStatus.server.edition = FieldAt(WireText, 0)
    /\ TheStatus.server.motd = <<FieldAt(WireText, 1), FieldAt(WireText, 7)>>
    /\ TheStatus.version.protocol = unwrap_or(parse_i32(FieldAt(WireText, 2)), 1)
    /\ TheStatus.version.name = FieldAt(WireText, 3)
    /\ TheStatus.players.online = unwrap_or(parse_i32(FieldAt(WireText, 4)), -1)
    /\ TheStatus.players.max = unwrap_or(parse_i32(FieldAt(WireText, 5)), -1)
    /\ TheStatus.server.host = h
    /\ TheStatus.server.port = (IF p = None THEN 19132 ELSE p[1])

\* A Status from a text of more than 9 tokens, queried without a port.
C6_Witness ==
  /\ Decoded /\ ret = "Ok" /\ p = None
  /\ SemiCount(WireText) > 9
  /\ TheStatus.server.motd[2] # << >>

\* C7: the guid of the Status is the big-endian signed 64-bit value of reply
\* bytes [9..17) whatever the text holds: a unique-id token that differs from
\* it, is empty or is no number causes no error and changes no guid.
C7_GuidFromHeader ==
  Decoded /\ amt >= 35 /\ Utf8Valid(WireText) =>
    /\ ret = "Ok"
    /\ i64_to_be_bytes(TheStatus.server.guid) = SubSeq(packet, 10, 17)
    /\ TheStatus.server.guid.neg <=> packet[10] >= 128
    /\ SubSeq(packet, 10, 17) = GoldenGuid =>
         i64_to_string(TheStatus.server.guid) = <<49, 50, 51, 52, 53, 54, 55, 56, 57, 48>>

\* A Status whose unique-id token is a number other than its guid.
C7_Witness ==
  /\ Decoded /\ ret = "Ok"
  /\ FieldAt(WireText, 6) = <<57, 57, 57>>
  /\ i64_to_string(TheStatus.server.guid) = <<49, 50, 51, 52, 53, 54, 55, 56, 57, 48>>

\* C8: when the receive obtains no reply datagram, status returns no Status:
\* the call ends by a panic with the message "could not get status".
C8_ReceiveFailurePanics ==
  pc = "done" /\ recvs = 1 /\ src = "" =>
    /\ ret = "panic"
    /\ detail = "could not get status"
    /\ result = None

\* A query of localhost on the default port whose receive failed.
C8_Witness ==
  /\ pc = "done" /\ recvs = 1 /\ src = ""
  /\ h = "localhost" /\ p = None /\ port = 19132

\* C9: a call sends at most one request and attempts at most one receive, the
\* receive only after the send succeeded; a failed send or receive is
\* terminal: after it the call sends and receives no more.
C9_NoRetry ==
  /\ [](/\ sends <= 1 /\ recvs <= 1 /\ Len(wire) <= sends
        /\ recvs = 1 => Len(wire) = 1
        /\ failed = "send" => pc = "done" /\ wire = << >> /\ recvs = 0
        /\ failed = "recv_from" => pc = "done" /\ src = "")
  /\ [][calls' = calls =>
          /\ sends' # sends => pc = "send" /\ failed = "" /\ recvs = 0
          /\ recvs' # recvs => pc = "recv_from" /\ failed = "" /\ Len(wire) = 1
          /\ failed \in {"send", "recv_from"} =>
               sends' = sends /\ recvs' = recvs /\ wire' = wire]_vars

\* A call that ended on a failed receive after its one send.
C9_Witness ==
  pc = "done" /\ failed = "recv_from" /\ sends = 1 /\ recvs = 1 /\ Len(wire) = 1

\* C10: each call binds a fresh socket, and however the call ends after the
\* bind that socket is released by then: no socket stays open after its call
\* and none is used by another call.
C10_SocketScoped ==
  /\ pc \in {"idle", "bind", "done"} => open = {}
  /\ pc \notin {"idle", "bind", "done"} =>
       /\ open = {socket}
       /\ socket = bound[Len(bound)]
  /\ \A i, j \in 1..Len(bound) : i # j => bound[i] # bound[j]
  /\ Len(bound) <= calls
  /\ socket # 0 => socket = bound[Len(bound)]

\* A second call that bound its own socket and ended by a panic, the first
\* call having bound one too.
C10_Witness ==
  /\ pc = "done" /\ ret = "panic" /\ calls = 2
  /\ Len(bound) = 2 /\ socket = bound[2]

====
